---- MODULE Spec2Model ----
(***************************************************************************)
(* Model of watcher/kqueue_and_fsevents.cpp: the PendingEventsCond gate,   *)
(* the KQueueAndFSEventsWatcher composite (pool of FSEventsWatcher per     *)
(* top-level directory plus one KQueueWatcher for the root), the monitor   *)
(* threads of startThread, and the debug-kqueue-and-fsevents-recrawl       *)
(* command.                                                                *)
(***************************************************************************)
EXTENDS Integers, Sequences, FiniteSets, TLC

(* ------------------------------ bounds -------------------------------- *)
\* FSEventsWatcher objects constructed over a run
MaxInst == 2
\* injectRecrawl calls between two drains
MaxInject == 2

\* Root objects constructed over a run
MaxRoots == 3

(* ----------------------------- universe ------------------------------- *)
\* the root paths the registry is asked about
RegPaths == {"/w1", "/w2"}
NoRegPath == "<no root>"
\* the Root objects, and map->end()
Roots == 1..MaxRoots
NoRoot == 0
\* before any removeFromWatched
NoRm == [root |-> NoRoot, ret |-> FALSE]
\* root->root_path
RootPath == "R"
\* directories handed to startWatchDir: the root, two top-level ones, a deeper one
Dirs == {"R", "R/a", "R/b", "R/a/x"}
NoDir == "<none>"
\* dir->parent->getFullPath(), NoDir when dir->parent is null
Parent(d) ==
    CASE d = "R" -> NoDir
      [] d = "R/a" -> "R"
      [] d = "R/b" -> "R"
      [] OTHER -> "R/a"
\* the directories whose parent is the root: the keys the pool can get
TopDirs == {d \in Dirs : Parent(d) = RootPath}
\* files handed to startWatchFile: one at the root, one below a top-level directory
Files == {"R/f", "R/a/g"}
\* file->parent
FileDir(f) == IF f = "R/f" THEN "R" ELSE "R/a"
\* json_string_value() of a json value that is no string
NullPath == "<null>"
\* third argument of the recrawl command
PathArgs == {"R/b", "R/c", NullPath}
\* injectedRecrawl_ holding std::nullopt
NoPath == "<nullopt>"
\* threads that call KQueueAndFSEventsWatcher::waitNotify
Waiters == {"consumer", "aux"}
Insts == 1..MaxInst
NoInst == 0
\* the kqueue watcher among the leaf watchers
KqSrc == 0
\* leaf watchers: the kqueue watcher and the FSEventsWatcher instances
Leaves == {KqSrc} \cup Insts

VARIABLES
    shouldStop,   \* PendingEventsCond::Inner::shouldStop
    hasPending,   \* PendingEventsCond::Inner::hasPending
    waiter,       \* per waiter: "idle", "sleeping" (inside cond_.wait_for), "woken"
    waitRet,      \* per waiter: result of its last wait(): "none", "true", "false"
    thr,          \* monitor thread of each leaf watcher: "none", "top", "waiting",
                  \* "notify", "check", "exited"
    pool,         \* fseventWatchers_: top-level path -> instance (NoInst = no entry)
    nInst,        \* FSEventsWatcher objects constructed so far
    ipath,        \* path each instance was constructed for
    started,      \* per instance: "no", "ok", "failed" (result of its start())
    signalled,    \* per instance: signalThreads() was called on it
    cancelled,    \* per instance: its consumeNotify reported cancelSelf
    removed,      \* per instance: removeCookieDir calls made for it
    cookieDirs,   \* root->cookies directories
    kq,           \* what the kqueue watcher was asked to watch
    kqSignalled,  \* signalThreads() was called on the kqueue watcher
    injected,     \* injectedRecrawl_
    latest,       \* path of the last injectRecrawl call since the last drain
    nPending,     \* injectRecrawl calls since the last drain
    drainRes,     \* what the last consumeNotify returned
    spc,          \* signalThreads position: "idle", "pool", "kqueue"
    apc,          \* recrawl command position: "idle", "notify"
    cmdLog,       \* the last recrawl command: error / all responses sent, and
                  \* whether it hit a rejection branch and called injectRecrawl
    lastReg,      \* how the last startWatchDir / startWatchFile ended: "handle",
                  \* "error" (an exception), "true", "false"; "none" before any
    crashed,      \* the process died of undefined behaviour
    watched,      \* watched_roots: root path -> Root object (NoRoot = no entry)
    nRoots,       \* Root objects constructed so far
    rootPathOf,   \* root_path of each Root object
    rmRet,        \* the last removeFromWatched: the object it ran on, its result
    swaRoot,      \* w_root_stop_watch_all: the root it holds between picking it
                  \* under the lock and cancelling it (NoRoot = none)
    fwrRoots      \* w_root_free_watched_roots: the copied roots still to cancel

gateVars == <<shouldStop, hasPending, waiter, waitRet>>
thrVars == <<thr>>
instVars == <<pool, nInst, ipath, started, signalled, cancelled, removed>>
envVars == <<cookieDirs, kq, kqSignalled>>
injVars == <<injected, latest, nPending>>
ctlVars == <<spc, apc, cmdLog, lastReg, crashed>>
regVars == <<watched, nRoots, rootPathOf, rmRet, swaRoot, fwrRoots>>
progVars == <<gateVars, thrVars, instVars, envVars, injVars, drainRes, ctlVars>>
vars == <<progVars, regVars>>

NoCmd == [rejected |-> FALSE, errors |-> 0, responses |-> 0, injectCalled |-> FALSE]
NoRes == [done |-> FALSE, addedPending |-> FALSE, cancelSelf |-> FALSE]

Init ==
    /\ shouldStop = FALSE
    /\ hasPending = FALSE
    /\ waiter = [w \in Waiters |-> "idle"]
    /\ waitRet = [w \in Waiters |-> "none"]
    /\ thr = [i \in Leaves |-> "none"]
    /\ pool = [p \in TopDirs |-> NoInst]
    /\ nInst = 0
    /\ ipath = [i \in Insts |-> NoDir]
    /\ started = [i \in Insts |-> "no"]
    /\ signalled = [i \in Insts |-> FALSE]
    /\ cancelled = [i \in Insts |-> FALSE]
    /\ removed = [i \in Insts |-> 0]
    /\ cookieDirs = {}
    /\ kq = {}
    /\ kqSignalled = FALSE
    /\ injected = NoPath
    /\ latest = NoPath
    /\ nPending = 0
    /\ drainRes = NoRes
    /\ spc = "idle"
    /\ apc = "idle"
    /\ cmdLog = NoCmd
    /\ lastReg = "none"
    /\ crashed = FALSE
    /\ watched = [p \in RegPaths |-> NoRoot]
    /\ nRoots = 0
    /\ rootPathOf = [o \in Roots |-> NoRegPath]
    /\ rmRet = NoRm
    /\ swaRoot = NoRoot
    /\ fwrRoots = {}

\* the composite was started and the process is alive
Running == thr[KqSrc] # "none" /\ ~crashed

(* ------------------------- PendingEventsCond -------------------------- *)
\* a notify_one that wakes every sleeping waiter
notify_every(ws) == {[w \in Waiters |-> IF ws[w] = "sleeping" THEN "woken" ELSE ws[w]]}

\* cond_.notify_one(): one of the sleeping waiters, if any, is woken
notify_one(ws) ==
    IF \E w \in Waiters : ws[w] = "sleeping"
    THEN {[ws EXCEPT ![w] = "woken"] : w \in {x \in Waiters : ws[x] = "sleeping"}}
    ELSE {ws}

\* a stopAll that sets the flag and forgets to notify
notify_none(ws) == ws

\* cond_.notify_all(): every sleeping waiter is woken
notify_all(ws) == [w \in Waiters |-> IF ws[w] = "sleeping" THEN "woken" ELSE ws[w]]

\* notifyOneOrStop(): the value it returns
notifyOneOrStop_ret == shouldStop

\* notifyOneOrStop(): its effect on the gate
notifyOneOrStop ==
    IF shouldStop
    THEN UNCHANGED <<hasPending, waiter>>
    ELSE /\ hasPending' = TRUE
         /\ waiter' \in notify_one(waiter)

\* wait(timeoutms), up to cond_.wait_for releasing the mutex: the stop check and
\* going to sleep are one critical section
wait_enter(w) ==
    /\ waiter[w] = "idle"
    /\ IF shouldStop
       THEN /\ waitRet' = [waitRet EXCEPT ![w] = "false"]
            /\ UNCHANGED waiter
       ELSE /\ waiter' = [waiter EXCEPT ![w] = "sleeping"]
            /\ waitRet' = [waitRet EXCEPT ![w] = "none"]

\* cond_.wait_for ends without a notification: the timeout or a spurious wake-up
wait_timeout(w) ==
    /\ waiter[w] = "sleeping"
    /\ waiter' = [waiter EXCEPT ![w] = "woken"]

\* a wait that reports nothing whenever it returns
wait_return_false(w) ==
    /\ waiter[w] = "woken"
    /\ waiter' = [waiter EXCEPT ![w] = "idle"]
    /\ waitRet' = [waitRet EXCEPT ![w] = "false"]

\* wait() re-acquires the mutex and returns hasPending
wait_return(w) ==
    /\ waiter[w] = "woken"
    /\ waiter' = [waiter EXCEPT ![w] = "idle"]
    /\ waitRet' = [waitRet EXCEPT ![w] = IF hasPending THEN "true" ELSE "false"]

\* a stopAll that notifies without setting the flag
stopFlagAfter_keep(stop) == stop

\* a stopAll that flips the flag instead of setting it
stopFlagAfter_toggle(stop) == ~stop

\* lock->shouldStop = true
stopFlagAfter(stop) == TRUE

\* stopAll()
stopAll ==
    /\ shouldStop' = stopFlagAfter(shouldStop)
    /\ waiter' = notify_all(waiter)

(* --------------------------- monitor threads -------------------------- *)
\* a thread whose reference to its watcher always resolves
alive_always(i) == TRUE

\* weakWatcher.lock() succeeds: the kqueue watcher is a member of the composite,
\* an FSEventsWatcher is owned by its pool entry
alive(i) == i = KqSrc \/ pool[ipath[i]] = i

\* startThread(): the detached thread begins at the top of its loop
startThread(i) == [thr EXCEPT ![i] = "top"]

\* auto watcher = weakWatcher.lock(); if (!watcher) break;
ThreadResolve(i) ==
    /\ ~crashed
    /\ thr[i] = "top"
    /\ thr' = [thr EXCEPT ![i] = IF alive(i) THEN "waiting" ELSE "exited"]
    /\ UNCHANGED <<regVars, gateVars, instVars, envVars, injVars, drainRes, ctlVars>>

\* watcher->waitNotify(86400) of the leaf watcher returns r
ThreadLeafWait(i, r) ==
    /\ ~crashed
    /\ thr[i] = "waiting"
    /\ thr' = [thr EXCEPT ![i] = IF r THEN "notify" ELSE "check"]
    /\ UNCHANGED <<regVars, gateVars, instVars, envVars, injVars, drainRes, ctlVars>>

\* if (cond->notifyOneOrStop()) return;
ThreadNotify(i) ==
    /\ ~crashed
    /\ thr[i] = "notify"
    /\ notifyOneOrStop
    /\ thr' = [thr EXCEPT ![i] = IF notifyOneOrStop_ret THEN "exited" ELSE "top"]
    /\ UNCHANGED <<regVars, shouldStop, waitRet, instVars, envVars, injVars, drainRes, ctlVars>>

\* a loop that never looks at the stop flag after a fruitless wait
afterCheck_noStop(stop) == "top"

\* where the thread goes after waitNotify returned false: out if
\* cond->shouldStop(), else round the loop
afterCheck(stop) == IF stop THEN "exited" ELSE "top"

\* else if (cond->shouldStop()) return;
ThreadCheck(i) ==
    /\ ~crashed
    /\ thr[i] = "check"
    /\ thr' = [thr EXCEPT ![i] = afterCheck(shouldStop)]
    /\ UNCHANGED <<regVars, gateVars, instVars, envVars, injVars, drainRes, ctlVars>>

(* ------------------------ KQueueAndFSEventsWatcher -------------------- *)
\* root->cookies.addCookieDir / removeCookieDir
addCookieDir(dirs, d) == dirs \cup {d}
removeCookieDir(dirs, d) == dirs \ {d}

\* start(): the root's cookie dir, and the kqueue watcher's monitor thread
Start ==
    /\ ~crashed
    /\ thr[KqSrc] = "none"
    /\ cookieDirs' = addCookieDir(cookieDirs, RootPath)
    /\ thr' = startThread(KqSrc)
    /\ UNCHANGED <<regVars, gateVars, instVars, kq, kqSignalled, injVars, drainRes, ctlVars>>

\* waitNotify(timeoutms) == pendingCondition_->wait(timeoutms)
WaitNotify(w) ==
    /\ Running
    /\ wait_enter(w)
    /\ UNCHANGED <<regVars, shouldStop, hasPending, thrVars, instVars, envVars, injVars,
                   drainRes, ctlVars>>

WaitTimeout(w) ==
    /\ ~crashed
    /\ wait_timeout(w)
    /\ UNCHANGED <<regVars, shouldStop, hasPending, waitRet, thrVars, instVars, envVars, injVars,
                   drainRes, ctlVars>>

WaitReturn(w) ==
    /\ ~crashed
    /\ wait_return(w)
    /\ UNCHANGED <<regVars, shouldStop, hasPending, thrVars, instVars, envVars, injVars,
                   drainRes, ctlVars>>

\* startWatchDir, dir->parent == nullptr: the kqueue watcher watches the root
watchRoot(d) ==
    /\ kq' = kq \cup {d}
    /\ lastReg' = "handle"
    /\ UNCHANGED <<thrVars, instVars, cookieDirs>>

\* a startWatchDir that swallows the failure and hands out the directory handle
regResult_swallow(outcome) == "handle"

\* how startWatchDir ends for a new watcher: w_dir_open's handle, or the
\* runtime_error thrown when start or the thread spawn fails
regResult(outcome) == IF outcome = "ok" THEN "handle" ELSE "error"

\* startWatchDir, top-level directory with no pool entry: outcome is "ok",
\* "start_fails" (watcher->start returns false) or "spawn_fails" (the thread
\* cannot be created); both failures leave by an exception
watchNew(d, outcome) ==
    LET i == nInst + 1 IN
    /\ nInst < MaxInst
    /\ cookieDirs' = addCookieDir(cookieDirs, d)
    /\ pool' = [pool EXCEPT ![d] = i]
    /\ nInst' = i
    /\ ipath' = [ipath EXCEPT ![i] = d]
    /\ started' = [started EXCEPT ![i] = IF outcome = "start_fails" THEN "failed" ELSE "ok"]
    /\ thr' = IF outcome = "ok" THEN startThread(i) ELSE thr
    /\ lastReg' = regResult(outcome)
    /\ UNCHANGED <<signalled, cancelled, removed, kq>>

\* startWatchDir when nothing is to be registered: an existing pool entry, or a
\* directory deeper than the top level
watchNothing(d) ==
    /\ lastReg' = "handle"
    /\ UNCHANGED <<thrVars, instVars, cookieDirs, kq>>

\* wlock->find(fullPath) == wlock->end()
notInPool(pl, d) == d \notin DOMAIN pl \/ pl[d] = NoInst

\* a test that takes every directory below the root for a top-level one
isTopLevel_any(d) == Parent(d) # NoDir

\* dir->parent->getFullPath() == root->root_path
isTopLevel(d) == Parent(d) = RootPath

StartWatchDir(d, outcome) ==
    /\ Running
    /\ IF Parent(d) = NoDir
       THEN outcome = "ok" /\ watchRoot(d)
       ELSE IF isTopLevel(d)
            THEN IF notInPool(pool, d)
                 THEN watchNew(d, outcome)
                 ELSE outcome = "ok" /\ watchNothing(d)
            ELSE outcome = "ok" /\ watchNothing(d)
    /\ UNCHANGED <<regVars, gateVars, kqSignalled, injVars, drainRes, spc, apc, cmdLog, crashed>>

\* startWatchFile: a file at the root goes to the kqueue watcher, whose answer
\* (kqOk) is returned; any other file needs nothing
StartWatchFile(f, kqOk) ==
    /\ Running
    /\ IF Parent(FileDir(f)) = NoDir
       THEN /\ kq' = IF kqOk THEN kq \cup {f} ELSE kq
            /\ lastReg' = IF kqOk THEN "true" ELSE "false"
       ELSE /\ kqOk
            /\ kq' = kq
            /\ lastReg' = "true"
    /\ UNCHANGED <<regVars, gateVars, thrVars, instVars, cookieDirs, kqSignalled, injVars,
                   drainRes, spc, apc, cmdLog, crashed>>

(* ------------------------------ consumeNotify ------------------------- *)
\* W_PENDING_VIA_NOTIFY | W_PENDING_RECURSIVE | W_PENDING_IS_DESYNCED
PendingFlags == {"W_PENDING_VIA_NOTIFY", "W_PENDING_RECURSIVE", "W_PENDING_IS_DESYNCED"}

\* the items the injected-recrawl block adds to coll for the slot's content
injectedItems(slot) ==
    IF slot # NoPath
    THEN <<[path |-> slot, flags |-> PendingFlags, src |-> "injected"]>>
    ELSE <<>>

\* the slot after the injected-recrawl block: guard->reset()
slotAfterDrain(slot) == NoPath

\* ret after the injected-recrawl block: the block does not touch it
retAfterInject(slot) == FALSE

\* fseventWatches->erase(watchpath)
erase(pl, p) == [pl EXCEPT ![p] = NoInst]

\* the keys of the pool
keys(pl) == {q \in TopDirs : pl[q] # NoInst}

\* where the range-for stands after the erase of the entry it was visiting: the
\* increment of the invalidated iterator is undefined, so the loop may go on with
\* any of the entries left (each once at most from there), or stop
afterErase(pl) == SUBSET keys(pl)

\* The executions of the range-for over the pool, held under the write lock,
\* from the point where the keys td are still to be visited.  An execution is
\* the sequence of its turns [inst, path, added, cancel] (the entry visited and
\* what its consumeNotify returned) and whether the undefined iterator
\* increment after an erase ended the process.
RECURSIVE Runs(_, _)
Runs(pl, td) ==
    IF td = {}
    THEN {[visits |-> <<>>, died |-> FALSE]}
    ELSE UNION {
        LET v == [inst |-> pl[p], path |-> p, added |-> a, cancel |-> c] IN
        IF ~c
        THEN {[r EXCEPT !.visits = <<v>> \o @] : r \in Runs(pl, td \ {p})}
        ELSE {[visits |-> <<v>>, died |-> TRUE]} \cup
             UNION {{[r EXCEPT !.visits = <<v>> \o @] : r \in Runs(erase(pl, p), nt)}
                    : nt \in afterErase(erase(pl, p))}
        : p \in td, a \in BOOLEAN, c \in BOOLEAN}

\* the turns of execution r in which the watcher reported cancelSelf
cancels(r) == {k \in 1..Len(r.visits) : r.visits[k].cancel}

\* a loop that forgets the erase
poolAfter_keep(pl, r) == pl

\* the pool after execution r: each self-cancelled entry erased
poolAfter(pl, r) ==
    [q \in TopDirs |-> IF \E k \in cancels(r) : r.visits[k].path = q THEN erase(pl, q)[q]
                       ELSE pl[q]]

\* fsevent->signalThreads() on each self-cancelled watcher
signalledAfter(sg, r) ==
    [i \in Insts |-> sg[i] \/ \E k \in cancels(r) : r.visits[k].inst = i]

\* root->cookies.removeCookieDir(watchpath), once per self-cancelling turn
removedAfter(rm, r) ==
    [i \in Insts |-> rm[i] + Cardinality({k \in cancels(r) : r.visits[k].inst = i})]

cookieDirsAfter(dirs, r) ==
    {d \in dirs : removeCookieDir({d}, d) = {} => ~\E k \in cancels(r) : r.visits[k].path = d}

\* ret |= addedPending, which the continue of a self-cancelling turn skips
retAfterLoop(r0, r) ==
    r0 \/ \E k \in 1..Len(r.visits) : r.visits[k].added /\ ~r.visits[k].cancel

\* the items the watchers of execution r added to coll
leafItems(r) ==
    LET RECURSIVE items(_)
        items(k) ==
            IF k > Len(r.visits) THEN <<>>
            ELSE (IF r.visits[k].added
                  THEN <<[path |-> r.visits[k].path, flags |-> {"W_PENDING_VIA_NOTIFY"},
                          src |-> "fsevents"]>>
                  ELSE <<>>) \o items(k + 1)
    IN items(1)

\* everything a consumeNotify with slot content slot, execution r and the kqueue
\* watcher's answer kqAdded adds to coll
collOf(slot, r, kqAdded) ==
    injectedItems(slot) \o leafItems(r) \o
    (IF kqAdded
     THEN <<[path |-> RootPath, flags |-> {"W_PENDING_VIA_NOTIFY"}, src |-> "kqueue"]>>
     ELSE <<>>)

\* a consumeNotify that passes a subdirectory watcher's cancelSelf on
cancelOf_any(kqCancel, subCancel) == kqCancel \/ subCancel

\* the cancelSelf consumeNotify returns: the kqueue watcher's
cancelOf(kqCancel, subCancel) == kqCancel

\* consumeNotify: the injected-recrawl block, the loop over the pool (execution
\* r, one of RunTable[pool]) and the kqueue watcher's consumeNotify
\* returning (addedPending, cancelSelf)
ConsumeNotify(r, addedPending, cancelSelf) ==
    /\ Running
    /\ waiter["consumer"] = "idle"
    /\ IF r.died
       THEN /\ crashed' = TRUE
            /\ ~addedPending /\ ~cancelSelf
            /\ drainRes' = NoRes
       ELSE /\ crashed' = FALSE
            /\ drainRes' =
                 [done |-> TRUE,
                  addedPending |-> (retAfterLoop(retAfterInject(injected), r) \/ addedPending),
                  cancelSelf |-> cancelOf(cancelSelf, cancels(r) # {})]
    /\ injected' = slotAfterDrain(injected)
    /\ latest' = NoPath
    /\ nPending' = 0
    /\ pool' = poolAfter(pool, r)
    /\ signalled' = signalledAfter(signalled, r)
    /\ removed' = removedAfter(removed, r)
    /\ cancelled' = [i \in Insts |-> cancelled[i] \/ \E k \in cancels(r) : r.visits[k].inst = i]
    /\ cookieDirs' = cookieDirsAfter(cookieDirs, r)
    /\ UNCHANGED <<regVars, gateVars, thrVars, nInst, ipath, started, kq, kqSignalled,
                   spc, apc, cmdLog, lastReg>>

\* what the state after consumeNotify keeps of execution r: how often each
\* watcher self-cancelled, ret, and whether the process died
effect(r) ==
    <<[i \in Insts |-> Cardinality({k \in cancels(r) : r.visits[k].inst = i})],
      retAfterLoop(FALSE, r), r.died>>

\* every content the pool can have
Pools == [TopDirs -> {NoInst} \cup Insts]

\* the executions of the loop for every content of the pool, as a table
RECURSIVE runTable(_)
runTable(S) ==
    IF S = {} THEN <<>>
    ELSE LET pl == CHOOSE y \in S : TRUE
         IN (pl :> {r \in Runs(pl, keys(pl)) : TRUE}) @@ runTable(S \ {pl})
RunTable == runTable(Pools)

\* for every content of the pool, one execution for each effect: executions
\* with the same effect lead consumeNotify to the same state
RECURSIVE repTable(_)
repTable(S) ==
    IF S = {} THEN <<>>
    ELSE LET pl == CHOOSE y \in S : TRUE
         IN (pl :> {r \in RunTable[pl] :
                       r = CHOOSE q \in RunTable[pl] : effect(q) = effect(r)})
            @@ repTable(S \ {pl})
RepTable == repTable(Pools)

(* ------------------------------ signalThreads ------------------------- *)
\* pendingCondition_->stopAll()
SignalGate ==
    /\ Running
    /\ spc = "idle"
    /\ stopAll
    /\ spc' = "pool"
    /\ UNCHANGED <<regVars, hasPending, waitRet, thrVars, instVars, envVars, injVars, drainRes,
                   apc, cmdLog, lastReg, crashed>>

\* the read-locked loop: fsevent->signalThreads() on every pool entry
SignalPool ==
    /\ ~crashed
    /\ spc = "pool"
    /\ signalled' = [i \in Insts |-> signalled[i] \/ (i <= nInst /\ pool[ipath[i]] = i)]
    /\ spc' = "kqueue"
    /\ UNCHANGED <<regVars, gateVars, thrVars, pool, nInst, ipath, started, cancelled, removed,
                   envVars, injVars, drainRes, apc, cmdLog, lastReg, crashed>>

\* kqueueWatcher_->signalThreads()
SignalKqueue ==
    /\ ~crashed
    /\ spc = "kqueue"
    /\ kqSignalled' = TRUE
    /\ spc' = "idle"
    /\ UNCHANGED <<regVars, gateVars, thrVars, instVars, cookieDirs, kq, injVars, drainRes,
                   apc, cmdLog, lastReg, crashed>>

(* ------------------ debug-kqueue-and-fsevents-recrawl ----------------- *)
\* an injectRecrawl that keeps a path already waiting in the slot
injectStore_keepFirst(slot, path) == IF slot = NoPath THEN path ELSE slot

\* injectRecrawl(path), first statement: *injectedRecrawl_.wlock() = path
injectStore(slot, path) == path

\* whether the handler returns after the error response for a path argument
\* that is no string: it does not, it goes on to injectRecrawl
returnsOnBadPath == FALSE

\* the handler's early exits: send_error_response and return
cmdReject ==
    /\ cmdLog' = [rejected |-> TRUE, errors |-> 1, responses |-> 1, injectCalled |-> FALSE]
    /\ UNCHANGED <<injVars, apc, crashed>>

\* the command handler up to and including injectRecrawl's store. nargs is
\* json_array_size(args), composite whether watcherFromRoot finds the composite,
\* path the third argument; NullPath makes a w_string of a null char pointer,
\* which is undefined: the process dies (dies) or goes on with that path
CmdRecrawl(nargs, composite, path, dies) ==
    /\ Running
    /\ apc = "idle"
    /\ IF nargs # 3 \/ ~composite
       THEN ~dies /\ cmdReject
       ELSE IF path = NullPath /\ returnsOnBadPath
            THEN ~dies /\ cmdReject
            ELSE /\ nPending < MaxInject
                 /\ cmdLog' = [rejected |-> (path = NullPath),
                               errors |-> IF path = NullPath THEN 1 ELSE 0,
                               responses |-> IF path = NullPath THEN 1 ELSE 0,
                               injectCalled |-> TRUE]
                 /\ IF dies
                    THEN /\ path = NullPath
                         /\ crashed' = TRUE
                         /\ UNCHANGED <<injVars, apc>>
                    ELSE /\ injected' = injectStore(injected, path)
                         /\ latest' = path
                         /\ nPending' = nPending + 1
                         /\ apc' = "notify"
                         /\ crashed' = FALSE
    /\ UNCHANGED <<regVars, gateVars, thrVars, instVars, envVars, drainRes, spc, lastReg>>

\* injectRecrawl's pendingCondition_->notifyOneOrStop(), then the handler's
\* send_and_dispose_response
CmdNotify ==
    /\ ~crashed
    /\ apc = "notify"
    /\ notifyOneOrStop
    /\ cmdLog' = [cmdLog EXCEPT !.responses = @ + 1]
    /\ apc' = "idle"
    /\ UNCHANGED <<regVars, shouldStop, waitRet, thrVars, instVars, envVars, injVars, drainRes,
                   spc, lastReg, crashed>>

(* ------------------------------ watched_roots ------------------------- *)
\* a test that takes whatever root is mapped at the path for this one
sameRoot_any(entry, o) == TRUE

\* it->second.get() == this
sameRoot(entry, o) == entry = o

\* map->find(root_path) != map->end()
found(map, p) == map[p] # NoRoot

\* whether removeFromWatched on object o erases: the return value
removeRet(map, o) == found(map, rootPathOf[o]) /\ sameRoot(map[rootPathOf[o]], o)

\* the map after removeFromWatched on object o: map->erase(it) or nothing
mapAfterRemove(map, o) ==
    IF removeRet(map, o) THEN [map EXCEPT ![rootPathOf[o]] = NoRoot] ELSE map

\* Root::removeFromWatched, under the write lock
removeFromWatched(o) ==
    /\ watched' = mapAfterRemove(watched, o)
    /\ rmRet' = [root |-> o, ret |-> removeRet(watched, o)]

\* a new Root is made for path p and entered in watched_roots when the path
\* has no entry (root resolution, outside this file)
WatchRoot(p) ==
    /\ nRoots < MaxRoots
    /\ ~found(watched, p)
    /\ nRoots' = nRoots + 1
    /\ rootPathOf' = [rootPathOf EXCEPT ![nRoots + 1] = p]
    /\ watched' = [watched EXCEPT ![p] = nRoots + 1]
    /\ UNCHANGED <<progVars, rmRet, swaRoot, fwrRoots>>

\* removeFromWatched called on Root object o by whoever holds it
RemoveFromWatched(o) ==
    /\ o <= nRoots
    /\ removeFromWatched(o)
    /\ UNCHANGED <<progVars, nRoots, rootPathOf, swaRoot, fwrRoots>>

\* w_root_stop_watch_all, the locked block: root = map->begin()->second, which
\* for an unordered_map is any entry
StopAllPick ==
    /\ swaRoot = NoRoot
    /\ \E p \in RegPaths :
         /\ found(watched, p)
         /\ swaRoot' = watched[p]
    /\ UNCHANGED <<progVars, watched, nRoots, rootPathOf, rmRet, fwrRoots>>

\* w_root_stop_watch_all: root->cancel(), which takes the write lock to remove
\* the root, after the lock was given up
StopAllCancel ==
    /\ swaRoot # NoRoot
    /\ removeFromWatched(swaRoot)
    /\ swaRoot' = NoRoot
    /\ UNCHANGED <<progVars, nRoots, rootPathOf, fwrRoots>>

\* w_root_free_watched_roots: the copy of the roots made under the read lock
FreeCopy ==
    /\ fwrRoots = {}
    /\ fwrRoots' = {watched[p] : p \in {q \in RegPaths : found(watched, q)}}
    /\ fwrRoots' # {}
    /\ UNCHANGED <<progVars, watched, nRoots, rootPathOf, rmRet, swaRoot>>

\* w_root_free_watched_roots: root->cancel() on a copied root, outside the lock
FreeCancel(o) ==
    /\ o \in fwrRoots
    /\ removeFromWatched(o)
    /\ fwrRoots' = fwrRoots \ {o}
    /\ UNCHANGED <<progVars, nRoots, rootPathOf, swaRoot>>

(* ------------------------------ specification ------------------------- *)
\* how the construction of a new FSEventsWatcher goes
Outcomes == {"ok", "start_fails", "spawn_fails"}

\* the whole program
Next ==
    \/ Start
    \/ \E w \in Waiters : WaitNotify(w)
    \/ \E w \in Waiters : WaitTimeout(w)
    \/ \E w \in Waiters : WaitReturn(w)
    \/ \E i \in Leaves : ThreadResolve(i)
    \/ \E i \in Leaves, r \in BOOLEAN : ThreadLeafWait(i, r)
    \/ \E i \in Leaves : ThreadNotify(i)
    \/ \E i \in Leaves : ThreadCheck(i)
    \/ \E d \in Dirs, o \in Outcomes : StartWatchDir(d, o)
    \/ \E f \in Files, k \in BOOLEAN : StartWatchFile(f, k)
    \/ \E r \in RepTable[pool], a \in BOOLEAN, c \in BOOLEAN : ConsumeNotify(r, a, c)
    \/ SignalGate
    \/ SignalPool
    \/ SignalKqueue
    \/ \E n \in {2, 3}, c \in BOOLEAN, p \in PathArgs, x \in BOOLEAN : CmdRecrawl(n, c, p, x)
    \/ CmdNotify
    \/ \E p \in RegPaths : WatchRoot(p)
    \/ \E o \in Roots : RemoveFromWatched(o)
    \/ StopAllPick
    \/ StopAllCancel
    \/ FreeCopy
    \/ \E o \in Roots : FreeCancel(o)

Spec == Init /\ [][Next]_vars

\* The pool and what works on it: registration, the drain, signalThreads.
\* These are all the actions that write the pool, the instances' records, the
\* cookie dirs, the kqueue watcher's registrations or a drain's result.
NextPool ==
    \/ Start
    \/ \E d \in Dirs, o \in Outcomes : StartWatchDir(d, o)
    \/ \E r \in RepTable[pool], a \in BOOLEAN, c \in BOOLEAN : ConsumeNotify(r, a, c)
    \/ SignalGate
    \/ SignalPool
    \/ SignalKqueue

SpecPool == Init /\ [][NextPool]_vars

\* The injected recrawl: the command, the drain, and the registration that
\* gives the drain watchers to consult.  These are all the actions that write
\* the injected slot or the command's record.
NextInject ==
    \/ Start
    \/ \E d \in TopDirs : StartWatchDir(d, "ok")
    \/ \E r \in RepTable[pool], a \in BOOLEAN, c \in BOOLEAN : ConsumeNotify(r, a, c)
    \/ \E n \in {2, 3}, c \in BOOLEAN, p \in PathArgs, x \in BOOLEAN : CmdRecrawl(n, c, p, x)
    \/ CmdNotify

SpecInject == Init /\ [][NextInject]_vars

\* The gate and everything that touches it: the waiters, the producers (the
\* kqueue watcher's monitor thread and the recrawl command), stopAll through
\* signalThreads, and the consumer's drain between its waits.
NextGate ==
    \/ Start
    \/ \E w \in Waiters : WaitNotify(w)
    \/ \E w \in Waiters : WaitTimeout(w)
    \/ \E w \in Waiters : WaitReturn(w)
    \/ ThreadResolve(KqSrc)
    \/ \E r \in BOOLEAN : ThreadLeafWait(KqSrc, r)
    \/ ThreadNotify(KqSrc)
    \/ ThreadCheck(KqSrc)
    \/ \E r \in RepTable[pool], a \in BOOLEAN, c \in BOOLEAN : ConsumeNotify(r, a, c)
    \/ SignalGate
    \/ SignalPool
    \/ SignalKqueue
    \/ \E n \in {2, 3}, c \in BOOLEAN, p \in PathArgs, x \in BOOLEAN : CmdRecrawl(n, c, p, x)
    \/ CmdNotify

\* every monitor thread that can take a step eventually takes it; the leaf
\* watchers' waitNotify returns (a notification, the leaf's own stop, or its
\* timeout).  A thread has one step enabled at a time.
ThreadStep(i) ==
    \/ ThreadResolve(i)
    \/ \E r \in BOOLEAN : ThreadLeafWait(i, r)
    \/ ThreadNotify(i)
    \/ ThreadCheck(i)

ThreadFairness == \A i \in Leaves : WF_vars(ThreadStep(i))

\* a woken waiter gets the mutex back and returns
WaiterFairness == \A w \in Waiters : WF_vars(WaitReturn(w))

SpecGate == Init /\ [][NextGate]_vars /\ ThreadFairness /\ WaiterFairness

\* The monitor threads with what creates, evicts and stops their watchers.
\* The kqueue watcher's own consumeNotify answers only go into the drain's
\* result, which no thread reads: they are held at (false, false) here.
NextThreads ==
    \/ Start
    \/ \E i \in Leaves : ThreadResolve(i)
    \/ \E i \in Leaves, r \in BOOLEAN : ThreadLeafWait(i, r)
    \/ \E i \in Leaves : ThreadNotify(i)
    \/ \E i \in Leaves : ThreadCheck(i)
    \/ \E d \in TopDirs : StartWatchDir(d, "ok")
    \/ \E r \in RepTable[pool] : ConsumeNotify(r, FALSE, FALSE)
    \/ SignalGate
    \/ SignalPool
    \/ SignalKqueue

SpecThreads == Init /\ [][NextThreads]_vars /\ ThreadFairness

\* Every kind of operation that can follow a stop, one of each: a waiter, a
\* monitor thread, registration, the drain, signalThreads and the command.
NextFlag ==
    \/ Start
    \/ WaitNotify("consumer")
    \/ WaitTimeout("consumer")
    \/ WaitReturn("consumer")
    \/ ThreadResolve(KqSrc)
    \/ \E r \in BOOLEAN : ThreadLeafWait(KqSrc, r)
    \/ ThreadNotify(KqSrc)
    \/ ThreadCheck(KqSrc)
    \/ \E d \in Dirs : StartWatchDir(d, "ok")
    \/ \E r \in RepTable[pool] : ConsumeNotify(r, FALSE, FALSE)
    \/ SignalGate
    \/ SignalPool
    \/ SignalKqueue
    \/ \E p \in PathArgs : CmdRecrawl(3, TRUE, p, FALSE)
    \/ CmdNotify

SpecFlag == Init /\ [][NextFlag]_vars

\* The registry of watched roots and everything that works on it.
NextRegistry ==
    \/ \E p \in RegPaths : WatchRoot(p)
    \/ \E o \in Roots : RemoveFromWatched(o)
    \/ StopAllPick
    \/ StopAllCancel
    \/ FreeCopy
    \/ \E o \in Roots : FreeCancel(o)

SpecRegistry == Init /\ [][NextRegistry]_vars

\* a step of consumeNotify
DrainStep == \E r \in RepTable[pool], a \in BOOLEAN, c \in BOOLEAN : ConsumeNotify(r, a, c)

\* the synthetic items of a collection
synthetic(coll) == SelectSeq(coll, LAMBDA x : x.src = "injected")

(* ------------------------------- claims -------------------------------- *)

\* C1: once stopAll has run no waiter is left asleep inside wait (the wake-up
\* cannot be lost, whatever the timeout: no step of the timeout is needed), a
\* wait that starts after the stop returns false without sleeping, and every
\* waiter that was woken gets back to its caller.
C1_StopReleasesWaiters ==
    /\ [](shouldStop => \A w \in Waiters : waiter[w] # "sleeping")
    /\ [][\A w \in Waiters :
            (shouldStop /\ WaitNotify(w)) => (waiter'[w] = "idle" /\ waitRet'[w] = "false")]_vars
    /\ \A w \in Waiters : (shouldStop /\ waiter[w] = "woken") ~> (waiter[w] = "idle" \/ crashed)

\* both waiters were inside wait when the stop came: they are woken, and the
\* pending flag was never set, so only the stop can have ended their sleep
\* short of a timeout
C1_Witness ==
    /\ shouldStop
    /\ \A w \in Waiters : waiter[w] = "woken"
    /\ ~hasPending

\* C2: every path in the pool has exactly one watcher that is not evicted, and
\* that watcher was started and has its monitor thread; registering a path that
\* is in the pool constructs nothing.
C2_OneStartedWatcherPerPath ==
    /\ [](\A p \in TopDirs : pool[p] # NoInst =>
            /\ Cardinality({i \in 1..nInst : ipath[i] = p /\ ~cancelled[i]}) = 1
            /\ started[pool[p]] = "ok"
            /\ thr[pool[p]] # "none")
    /\ [][\A d \in TopDirs : (pool[d] # NoInst /\ \E o \in Outcomes : StartWatchDir(d, o))
            => (nInst' = nInst /\ pool' = pool /\ thr' = thr)]_vars

\* C3: a drain that finds a path in the slot emits exactly one synthetic item,
\* for the path injected last and with the three flags, and empties the slot; a
\* drain that finds the slot empty emits none; so a drain never emits more
\* synthetic items than there were injections since the drain before.
C3_InjectedSingleShot ==
    [][DrainStep =>
        /\ injected' = NoPath
        /\ \A r \in RunTable[pool], a \in BOOLEAN :
            LET syn == synthetic(collOf(injected, r, a)) IN
            /\ Len(syn) <= nPending
            /\ IF nPending > 0
               THEN syn = <<[path |-> latest, flags |-> PendingFlags, src |-> "injected"]>>
               ELSE syn = <<>>]_vars

\* an injection has been made and has posted its notification, and a drain
\* has since emptied the slot; a watcher is in the pool for the drain to consult
C3_Witness ==
    /\ cmdLog.injectCalled
    /\ ~cmdLog.rejected
    /\ apc = "idle"
    /\ injected = NoPath
    /\ drainRes.done
    /\ nInst > 0
    /\ ~crashed

\* C4: a drain that emits the synthetic item returns anyAdded = true whatever
\* the watchers added, and a drain with an empty slot and no event from any
\* watcher returns (false, false).
C4_SyntheticCountsAsAdded ==
    [][DrainStep =>
        \A r \in RunTable[pool], a \in BOOLEAN, c \in BOOLEAN :
            (ConsumeNotify(r, a, c) /\ ~r.died) =>
                /\ synthetic(collOf(injected, r, a)) # <<>> => drainRes'.addedPending
                /\ (collOf(injected, r, a) = <<>> /\ ~c) =>
                       (~drainRes'.addedPending /\ ~drainRes'.cancelSelf)]_vars

\* C5: a watcher that reported cancelSelf in a drain has, when that drain ends,
\* been signalled, had its cookie dir removed exactly once and left the pool;
\* in no state can a drain's loop visit it, and the loop that evicts a watcher
\* does not visit it again.
C5_EvictedWatcherIsGone ==
    /\ [](\A i \in Insts : cancelled[i] =>
            (signalled[i] /\ removed[i] = 1 /\ pool[ipath[i]] # i))
    /\ [](\A r \in RunTable[pool] : \A k \in 1..Len(r.visits) :
            /\ ~cancelled[r.visits[k].inst]
            /\ r.visits[k].cancel =>
                 \A m \in (k + 1)..Len(r.visits) : r.visits[m].inst # r.visits[k].inst)

\* the first watcher of a path was evicted, the path was registered again and a
\* later drain has run with the second watcher in the pool
C5_Witness ==
    /\ cancelled[1]
    /\ nInst = 2
    /\ ipath[2] = ipath[1]
    /\ pool[ipath[1]] = 2
    /\ drainRes.done
    /\ ~cancelled[2]

\* C6: a second stopAll changes nothing in the gate, a thread that has left
\* its loop stays out, and once stop is requested a state follows in which
\* every monitor thread that was started has left its loop (or the process is
\* gone), given that the leaf watchers' waitNotify returns.
C6_ThreadsExitAfterStop ==
    /\ [][(shouldStop /\ SignalGate) => UNCHANGED gateVars]_vars
    /\ [][\A i \in Leaves : (thr[i] # "none" => thr'[i] # "none") /\
                            (thr[i] = "exited" => thr'[i] = "exited")]_vars
    /\ shouldStop ~> (crashed \/ \A i \in Leaves : thr[i] \in {"none", "exited"})

\* after the stop the kqueue watcher's thread and the threads of two watchers,
\* both still in the pool, have left their loops
C6_Witness ==
    /\ shouldStop
    /\ nInst = 2
    /\ \A i \in Insts : pool[ipath[i]] = i
    /\ \A i \in Leaves : thr[i] = "exited"

\* C7: once the stop flag is true it is true in every later state.
C7_StopIsMonotone == [][shouldStop => shouldStop']_vars

\* after the stop: a second signalThreads has begun, an injection has posted
\* its notification, a drain has run and a registration has made a watcher
C7_Witness ==
    /\ shouldStop
    /\ spc = "kqueue"
    /\ cmdLog.responses = 1
    /\ drainRes.done
    /\ nInst = 1
    /\ waitRet["consumer"] = "false"
    /\ thr[KqSrc] = "exited"

\* C8: the cancelSelf a drain returns is the kqueue watcher's, however many
\* subdirectory watchers reported cancelSelf in it.
C8_OnlyRootCancels ==
    [][\A c \in BOOLEAN :
        (\E r \in RepTable[pool], a \in BOOLEAN : ConsumeNotify(r, a, c) /\ ~r.died)
            => drainRes'.cancelSelf = c]_vars

\* two watchers were evicted and the last drain returned cancelSelf = false
C8_Witness ==
    /\ cancelled[1]
    /\ cancelled[2]
    /\ drainRes.done
    /\ ~drainRes.cancelSelf

\* C9: a rejected command sends one error response and nothing else: it does
\* not call injectRecrawl, and it leaves the slot and the pending flag alone.
C9_RejectedMutatesNothing ==
    [][((cmdLog' # cmdLog \/ apc' # apc) /\ cmdLog'.rejected) =>
        /\ cmdLog'.errors = 1
        /\ cmdLog'.responses = 1
        /\ ~cmdLog'.injectCalled
        /\ injected' = injected
        /\ hasPending' = hasPending]_vars

\* C10: a startWatchDir whose new watcher fails to start, or whose thread
\* cannot be spawned, ends with an error after that one attempt, and leaves the
\* kqueue watcher, every other pool entry, every earlier watcher with its
\* thread, and every cookie dir that was there as they were.
C10_FailedRegistrationIsLocal ==
    [][\A d \in TopDirs, o \in Outcomes \ {"ok"} :
        StartWatchDir(d, o) =>
            /\ lastReg' = "error"
            /\ nInst' = nInst + 1
            /\ \A q \in TopDirs \ {d} : pool'[q] = pool[q]
            /\ \A i \in 1..nInst :
                 /\ thr'[i] = thr[i]
                 /\ started'[i] = started[i]
                 /\ ipath'[i] = ipath[i]
                 /\ signalled'[i] = signalled[i]
                 /\ cancelled'[i] = cancelled[i]
                 /\ removed'[i] = removed[i]
            /\ thr'[KqSrc] = thr[KqSrc]
            /\ kq' = kq
            /\ kqSignalled' = kqSignalled
            /\ cookieDirs \subseteq cookieDirs'
            /\ cookieDirs' \ cookieDirs \subseteq {d}
            /\ UNCHANGED gateVars]_vars

\* the second registration failed while the first watcher runs on in the pool
C10_Witness ==
    /\ lastReg = "error"
    /\ nInst = 2
    /\ started[1] = "ok"
    /\ started[2] = "failed"
    /\ pool[ipath[1]] = 1
    /\ ipath[2] # ipath[1]
    /\ kq = {RootPath}

\* C11: notifyOneOrStop called with the stop flag set returns true (the monitor
\* thread that called it leaves its loop) and changes nothing in the gate;
\* called with the flag clear it sets the pending flag, wakes at most one
\* sleeping waiter, leaves the stop flag alone and returns false (the thread
\* goes round its loop).
C11_NotifyOneOrStop ==
    [][(ThreadNotify(KqSrc) \/ CmdNotify) =>
        IF shouldStop
        THEN /\ UNCHANGED gateVars
             /\ ThreadNotify(KqSrc) => thr'[KqSrc] = "exited"
        ELSE /\ hasPending'
             /\ ~shouldStop'
             /\ waitRet' = waitRet
             /\ Cardinality({w \in Waiters : waiter'[w] # waiter[w]}) <= 1
             /\ \A w \in Waiters :
                  waiter'[w] # waiter[w] => (waiter[w] = "sleeping" /\ waiter'[w] = "woken")
             /\ (\E w \in Waiters : waiter[w] = "sleeping") => waiter' # waiter
             /\ ThreadNotify(KqSrc) => thr'[KqSrc] = "top"]_vars

\* a notification found both waiters asleep and woke one of them
C11_Witness ==
    /\ ~shouldStop
    /\ hasPending
    /\ waiter["consumer"] = "woken"
    /\ waiter["aux"] = "sleeping"

\* C12: no step of wait changes the pending flag, and a drain consumes it: the
\* flag is false when consumeNotify has returned, so that a wait which then
\* times out with no notification posted in between returns false.
C12_DrainConsumesPending ==
    /\ [][(\E w \in Waiters : WaitNotify(w) \/ WaitTimeout(w) \/ WaitReturn(w))
            => hasPending' = hasPending]_vars
    /\ [][(DrainStep /\ ~crashed') => ~hasPending']_vars
    /\ [][\A w \in Waiters : (WaitReturn(w) /\ ~hasPending) => waitRet'[w] = "false"]_vars

\* C13: a notifyOneOrStop that returns false leaves the pending flag set, the
\* flag is never lost afterwards, a consumer asleep alone in wait is woken by
\* the notification and gets to return, and a wait that returns while the flag
\* is set returns true: a notification posted before or during a wait is
\* reported by that wait.
C13_NoMissedNotification ==
    /\ [][((ThreadNotify(KqSrc) \/ CmdNotify) /\ ~shouldStop) =>
            /\ hasPending'
            /\ (waiter["consumer"] = "sleeping" /\ waiter["aux"] # "sleeping")
                   => waiter'["consumer"] = "woken"]_vars
    /\ [][hasPending => hasPending']_vars
    /\ [][\A w \in Waiters : (WaitReturn(w) /\ hasPending) => waitRet'[w] = "true"]_vars
    /\ (waiter["consumer"] = "woken") ~> (waiter["consumer"] = "idle" \/ crashed)

\* the consumer's wait has returned true with no stop requested, while the
\* other waiter is still asleep
C13_Witness ==
    /\ ~shouldStop
    /\ waitRet["consumer"] = "true"
    /\ waiter["consumer"] = "idle"
    /\ waiter["aux"] = "sleeping"

\* C14: signalThreads sets the stop flag before it signals any watcher: its
\* loop over the pool and its call on the kqueue watcher run with the flag
\* set, the loop signals every watcher then in the pool, and the kqueue
\* watcher is signalled only after the loop.  So a watcher signalled by
\* signalThreads (not by its own eviction) implies the flag, and a monitor
\* thread whose waitNotify has returned under the flag leaves its loop at its
\* next step, never going back to wait.
C14_StopFlagBeforeLeafStop ==
    /\ [](spc # "idle" => shouldStop)
    /\ [](kqSignalled => shouldStop)
    /\ [](\A i \in Insts : (signalled[i] /\ ~cancelled[i]) => shouldStop)
    /\ [][SignalPool =>
            /\ spc' = "kqueue"
            /\ kqSignalled' = kqSignalled
            /\ \A p \in TopDirs : pool[p] # NoInst => signalled'[pool[p]]]_vars
    /\ [][SignalKqueue => spc = "kqueue"]_vars
    /\ [][\A i \in Leaves :
            (shouldStop /\ thr[i] \in {"notify", "check"} /\ thr'[i] # thr[i])
                => thr'[i] = "exited"]_vars

\* signalThreads has run to its end with a watcher in the pool: the watcher
\* and the kqueue watcher were signalled and both monitor threads have left
C14_Witness ==
    /\ shouldStop
    /\ spc = "idle"
    /\ kqSignalled
    /\ nInst >= 1
    /\ pool[ipath[1]] = 1
    /\ signalled[1]
    /\ ~cancelled[1]
    /\ thr[1] = "exited"
    /\ thr[KqSrc] = "exited"

\* C15: an evicted watcher is out of the pool, so no drain consults it; once a
\* watcher is evicted a state follows in which the thread of every evicted
\* watcher has left its loop (or the process is gone), stop or no stop; and a
\* monitor thread leaves its loop only under the stop flag or when its own
\* watcher has been evicted, so the other threads run on.
C15_EvictedThreadExits ==
    /\ [](\A i \in Insts : cancelled[i] => pool[ipath[i]] # i)
    /\ [][\A i \in Leaves :
            (thr'[i] = "exited" /\ thr[i] # "exited")
                => (shouldStop \/ (i \in Insts /\ cancelled[i]))]_vars
    /\ (\E i \in Insts : cancelled[i])
          ~> (crashed \/ \A i \in Insts : cancelled[i] => thr[i] = "exited")

\* with no stop requested the first watcher was evicted and its thread has
\* left, while the second watcher's thread and the kqueue watcher's wait on
C15_Witness ==
    /\ ~shouldStop
    /\ cancelled[1]
    /\ thr[1] = "exited"
    /\ nInst = 2
    /\ ~cancelled[2]
    /\ thr[2] = "waiting"
    /\ thr[KqSrc] = "waiting"

\* C16: every execution the drain's loop can take visits each watcher that is
\* in the pool when the drain starts exactly once and comes to its end (after
\* which the kqueue watcher is consulted once), also when a watcher reports
\* cancelSelf and is erased on the way.
C16_EachWatcherDrainedOnce ==
    \A r \in RunTable[pool] :
        /\ ~r.died
        /\ \A p \in keys(pool) :
             Cardinality({k \in 1..Len(r.visits) : r.visits[k].path = p}) = 1

\* C17: every watcher ever constructed is for an immediate child of the root,
\* and so is every key of the pool; startWatchDir for the root adds the root to
\* the kqueue watcher and leaves the pool, the watchers and the cookie dirs as
\* they were; startWatchDir for a directory deeper than the top level changes
\* none of the pool, the watchers, their threads, the cookie dirs and the
\* kqueue watcher; both return the directory handle.
C17_PoolKeysAreTopLevel ==
    /\ [](\A i \in 1..nInst : Parent(ipath[i]) = RootPath)
    /\ [](\A p \in DOMAIN pool : pool[p] # NoInst => Parent(p) = RootPath)
    /\ [][\A o \in Outcomes : StartWatchDir(RootPath, o) =>
            /\ kq' = kq \cup {RootPath}
            /\ lastReg' = "handle"
            /\ UNCHANGED <<instVars, thrVars, cookieDirs>>]_vars
    /\ [][\A d \in Dirs, o \in Outcomes :
            (Parent(d) \notin {NoDir, RootPath} /\ StartWatchDir(d, o)) =>
                /\ lastReg' = "handle"
                /\ UNCHANGED <<instVars, thrVars, cookieDirs, kq>>]_vars

\* a failed registration was followed by one of a deeper directory, which
\* returned the handle; the root is with the kqueue watcher and the pool holds
\* only the entry the failed call made
C17_Witness ==
    /\ kq = {RootPath}
    /\ nInst = 1
    /\ started[1] = "failed"
    /\ lastReg = "handle"
    /\ cookieDirs = {RootPath, ipath[1]}

\* C18: every watcher in the pool was started successfully and has its monitor
\* thread, and a startWatchDir that fails leaves no pool entry for its path, so
\* that the next registration of the path constructs a watcher again.
C18_PoolHoldsOnlyStartedWatchers ==
    /\ [](\A p \in TopDirs : pool[p] # NoInst =>
            (started[pool[p]] = "ok" /\ thr[pool[p]] # "none"))
    /\ [][\A d \in TopDirs, o \in Outcomes \ {"ok"} :
            StartWatchDir(d, o) => pool'[d] = NoInst]_vars
    /\ [][\A d \in TopDirs :
            (lastReg = "error" /\ pool[d] = nInst /\ nInst < MaxInst /\ StartWatchDir(d, "ok"))
                => nInst' = nInst + 1]_vars

\* C19: once the stop flag is set and signalThreads has returned, every watcher
\* in the pool has been signalled, whenever it was registered.
C19_NoWatcherLeftUnstopped ==
    (shouldStop /\ spc = "idle") =>
        \A p \in TopDirs : pool[p] # NoInst => signalled[pool[p]]

\* C20: a wait entered with the pending flag set and no stop requested does
\* not go to sleep: it returns true at once, needing neither the timeout nor
\* another notification.
C20_WaitSeesPendingAtEntry ==
    [][\A w \in Waiters :
        (hasPending /\ ~shouldStop /\ WaitNotify(w))
            => (waiter'[w] = "idle" /\ waitRet'[w] = "true")]_vars

\* C21: removeFromWatched on a Root erases the entry at the root's path and
\* returns true exactly when that entry is mapped to this very object; when
\* the path has no entry or is mapped to another Root it returns false and
\* leaves the map as it was.  Every other entry is left alone either way, for
\* each caller: a direct call, w_root_stop_watch_all and
\* w_root_free_watched_roots.
C21_RemoveOnlyOwnEntry ==
    [][\A o \in Roots :
        (RemoveFromWatched(o) \/ (swaRoot = o /\ StopAllCancel) \/ FreeCancel(o)) =>
            /\ rmRet'.root = o
            /\ rmRet'.ret = (watched[rootPathOf[o]] = o)
            /\ \A p \in RegPaths \ {rootPathOf[o]} : watched'[p] = watched[p]
            /\ IF watched[rootPathOf[o]] = o
               THEN watched'[rootPathOf[o]] = NoRoot
               ELSE watched' = watched]_vars

\* the first root was removed and another was registered at its path; a
\* removeFromWatched on the first root then returned false and the
\* replacement is still in the map
C21_Witness ==
    /\ nRoots >= 2
    /\ rootPathOf[1] = rootPathOf[2]
    /\ watched[rootPathOf[1]] = 2
    /\ rmRet = [root |-> 1, ret |-> FALSE]

====
